---- MODULE Spec2Model ----
(***************************************************************************)
(* A model of demo.py: the demo/test functions of a hand-built deep-       *)
(* learning framework, the training loops they share, the accuracy         *)
(* testers, and the parts of the framework (Module, modules, optimizers,   *)
(* helpers) that the functions call.  The framework is not part of the     *)
(* file: its operations are modelled from the documented contracts and     *)
(* are named Lib*.                                                          *)
(***************************************************************************)
EXTENDS Naturals, Sequences, FiniteSets

VARIABLES
    pc,                 \* position of the interpreter
    ip,                 \* index of the next statement of the running test function
    stack,              \* return positions of the calls in progress
    fn,                 \* the top-level function being run ("none" between calls)
    ncalls,             \* number of top-level calls made so far
    env,                \* how the framework and the data files behave in this run
    bceSite,            \* where BCELoss checks for the final Sigmoid
    gradEnabled,        \* torch's process-wide autograd switch
    defaultTensorType,  \* torch's process-wide default tensor type
    out,                \* lines printed by the running top-level call
    raised,             \* the exception being propagated ("none" when none)
    inTry,              \* TRUE while control is inside a try block
    model,              \* the hand-built model
    torchModel,         \* the reference (torch) model
    criterion,          \* the loss object of the hand-built model
    tFn,                \* test_model_fn: the accuracy tester passed to the loops
    nbEpochs,           \* nb_epochs of the running training function
    e,                  \* the loop variable of the running training loop
    lossHist,           \* loss_history
    trainAccHist,       \* train_acc_history
    testAccHist,        \* test_acc_history
    trace,              \* framework calls made on the hand-built model this epoch
    tArg,               \* the model the running tester was given
    tData,              \* the data set the running tester was given
    tRet,               \* the value the last tester call returned
    testAccuracy,       \* the local test_accuracy
    testAccuracyTorch   \* the local test_accuracy_torch

vars == <<pc, ip, stack, fn, ncalls, env, bceSite, gradEnabled, defaultTensorType,
          out, raised, inTry, model, torchModel, criterion, tFn, nbEpochs, e,
          lossHist, trainAccHist, testAccHist, trace, tArg, tData, tRet,
          testAccuracy, testAccuracyTorch>>

globalVars == <<env, bceSite, gradEnabled, defaultTensorType, ncalls>>
loopVars == <<nbEpochs, e, lossHist, trainAccHist, testAccHist>>
testerVars == <<tArg, tData, tRet>>
accVars == <<testAccuracy, testAccuracyTorch>>
modelVars == <<model, torchModel, criterion, tFn>>
excVars == <<raised, inTry>>

--------------------------------------------------------------------------
(* Bounds *)

\* Largest number of epochs a training loop runs in the model.
MaxEpochs == 2
\* Largest number of top-level calls in one run of the script.
MaxCalls == 2

Cap(n) == IF n > MaxEpochs THEN MaxEpochs ELSE n

--------------------------------------------------------------------------
(* Values *)

NoVal == [what |-> "none", model |-> "none", ver |-> 0, data |-> "none"]
Val(what, m, ver, data) == [what |-> what, model |-> m, ver |-> ver, data |-> data]
Line(msg, val) == [msg |-> msg, val |-> val]

Linear(name) == [kind |-> "Linear", name |-> name]
ReLU == [kind |-> "ReLU", name |-> ""]
Tanh == [kind |-> "Tanh", name |-> ""]
Sigmoid == [kind |-> "Sigmoid", name |-> ""]
TanhNamed(name) == [kind |-> "Tanh", name |-> name]
SigmoidNamed(name) == [kind |-> "Sigmoid", name |-> name]

NoModel == [built |-> FALSE, seq |-> FALSE, layers |-> <<>>, mode |-> "train",
            saved |-> <<>>, ver |-> 0, grad |-> "none"]
NoTorchModel == [built |-> FALSE, mode |-> "train", ver |-> 0]

--------------------------------------------------------------------------
(* The framework (Module, modules, optimizers, helpers), from its contracts *)

Envs == {"conforming", "no_assert", "other_error", "no_data"}
BceSites == {"criterion_forward", "criterion_backward"}

\* What a framework call does when its documented precondition is violated:
\* a conforming framework raises AssertionError; a framework that misses the
\* check returns normally; one that fails differently raises another error.
LibOutcome(violation) ==
    IF ~violation THEN "none"
    ELSE CASE env = "no_assert" -> "none"
           [] env = "other_error" -> "OtherError"
           [] OTHER -> "AssertionError"

\* Sequential(...): several unnamed parameterless modules of the same kind.
LibSequentialViolation(layers) ==
    \E i, j \in 1..Len(layers) :
        /\ i < j
        /\ layers[i].kind # "Linear"
        /\ layers[i].name = "" /\ layers[j].name = ""
        /\ layers[i].kind = layers[j].kind

LibNew(seq, layers) ==
    [built |-> TRUE, seq |-> seq, layers |-> layers, mode |-> "train",
     saved |-> <<>>, ver |-> 0, grad |-> "none"]

\* model(input): the intermediates are saved for backward in training mode only.
LibForward(m, input) ==
    IF m.mode = "train"
    THEN [m EXCEPT !.saved = [i \in 1..Len(m.layers) |-> [input |-> input, ver |-> m.ver]]]
    ELSE m

\* model.backward before any forward.
LibBackwardViolation(m) == m.saved = <<>>
LibBackward(m) == [m EXCEPT !.grad = "set"]
LibZeroGrad(m) == [m EXCEPT !.grad = "zero"]
LibStep(m) == [m EXCEPT !.ver = @ + 1]
LibEval(m) == [m EXCEPT !.mode = "eval"]
LibTrain(m) == [m EXCEPT !.mode = "train"]

\* BCELoss used with a model whose final layer is not a Sigmoid.
LibBCEViolation(crit, m) ==
    /\ crit = "BCELoss"
    /\ m.layers[Len(m.layers)].kind # "Sigmoid"

ForwardName(m) == IF m.mode = "train" THEN "forward_train" ELSE "forward_eval"

--------------------------------------------------------------------------
(* The models and losses the test functions build *)

Model_standalone_linear == <<Linear("fc1")>>
Model_relu_tanh_sigmoid ==
    <<Linear("fc1"), ReLU, Linear("fc2"), Tanh, Linear("fc3"), Sigmoid>>
Model_multiple_sigmoid_second_named ==
    <<Linear("fc1"), ReLU, Linear("fc2"), Sigmoid, Linear("fc3"), SigmoidNamed("sigmoid2")>>
Model_multiple_unnamed_sigmoid ==
    <<Linear("fc1"), ReLU, Linear("fc2"), Sigmoid, Linear("fc3"), Sigmoid>>
Model_not_corrupting == <<Linear("fc1"), Tanh, Linear("fc2")>>
Model_backward_first == <<Linear("fc1")>>
Model_without_sigmoid_with_sigmoid ==
    <<Linear("fc1"), ReLU, Linear("fc2"), Tanh, Linear("fc3"), Sigmoid>>
Model_without_sigmoid ==
    <<Linear("fc1"), ReLU, Linear("fc2"), Tanh, Linear("fc3")>>
Model_with_BCELoss ==
    <<Linear("fc1"), ReLU, Linear("fc2"), Tanh, Linear("fc3"), Sigmoid>>
Model_with_BCEWithLogitsLoss ==
    <<Linear("fc1"), ReLU, Linear("fc2"), Tanh, Linear("fc3")>>
Model_mnist ==
    <<Linear("fc1"), ReLU, Linear("fc2"), Tanh, Linear("fc3"), TanhNamed("tanh2")>>
Model_mnist_stable ==
    <<Linear("fc1"), ReLU, Linear("fc2"), Tanh, Linear("fc3"), TanhNamed("tanh2")>>

TestFns == {"test_standalone_linear_module",
            "test_sequential_module_with_relu_tanh_sigmoid",
            "test_assertion_error_with_multiple_unnamed_sigmoid",
            "test_not_corrupting_forward_variables_in_eval_mode",
            "test_assertion_error_when_calling_backward_first",
            "test_assertion_error_without_sigmoid_before_BCELoss",
            "test_training_with_BCELoss",
            "test_training_with_BCEWithLogitsLoss",
            "test_on_mnist_data",
            "test_on_mnist_data_numerically_stable_training"}

NegativeTests == {"test_assertion_error_with_multiple_unnamed_sigmoid",
                  "test_assertion_error_when_calling_backward_first",
                  "test_assertion_error_without_sigmoid_before_BCELoss"}

\* The file's other functions, called with arguments of the caller's choice.
DirectFns == {"train_custom_and_torch", "train_and_test_model",
              "train_and_test_model_torch", "test_model_bce",
              "test_model_bceWithLogits"}

Layers(f) ==
    CASE f = "test_standalone_linear_module" -> Model_standalone_linear
      [] f = "test_sequential_module_with_relu_tanh_sigmoid" -> Model_relu_tanh_sigmoid
      [] f = "test_assertion_error_with_multiple_unnamed_sigmoid" -> Model_multiple_unnamed_sigmoid
      [] f = "test_not_corrupting_forward_variables_in_eval_mode" -> Model_not_corrupting
      [] f = "test_assertion_error_when_calling_backward_first" -> Model_backward_first
      [] f = "test_assertion_error_without_sigmoid_before_BCELoss" -> Model_without_sigmoid
      [] f = "test_training_with_BCELoss" -> Model_with_BCELoss
      [] f = "test_training_with_BCEWithLogitsLoss" -> Model_with_BCEWithLogitsLoss
      [] f = "test_on_mnist_data" -> Model_mnist
      [] OTHER -> Model_mnist_stable

\* Linear(...) alone is a module; every other model is a Sequential.
IsSequential(f) ==
    f \notin {"test_standalone_linear_module",
              "test_assertion_error_when_calling_backward_first"}

Criterion(f) ==
    CASE f \in {"test_standalone_linear_module",
                "test_sequential_module_with_relu_tanh_sigmoid",
                "test_not_corrupting_forward_variables_in_eval_mode"} -> "MSELoss"
      [] f \in {"test_assertion_error_without_sigmoid_before_BCELoss",
                "test_training_with_BCELoss"} -> "BCELoss"
      [] OTHER -> "BCEWithLogitsLoss"

TestModelFn(f) ==
    IF f \in {"test_assertion_error_without_sigmoid_before_BCELoss",
              "test_training_with_BCELoss"}
    THEN "bce" ELSE "bceWithLogits"

\* nb_epochs the test functions pass.
NbEpochs301 == 301
NbEpochs300 == 300
NbEpochsArg(f) ==
    IF f \in {"test_on_mnist_data", "test_on_mnist_data_numerically_stable_training"}
    THEN NbEpochs300 ELSE NbEpochs301

\* Period of the epoch log line.
LogEvery100 == 100
LogEvery50 == 50

--------------------------------------------------------------------------
(* The statements of the test functions *)

Body_test_standalone_linear_module ==
    <<"header", "construct", "new_criterion", "construct_torch", "call_cat", "return">>
Body_test_sequential_module_with_relu_tanh_sigmoid ==
    <<"header", "construct", "new_criterion", "construct_torch", "call_cat", "return">>
Body_test_assertion_error_with_multiple_unnamed_sigmoid ==
    <<"header", "try", "construct", "uncorrect", "return">>
Body_test_not_corrupting_forward_variables_in_eval_mode ==
    <<"header", "construct", "new_criterion", "load", "forward", "criterion",
      "print_saved", "call_tester_mse", "print_saved", "return">>
Body_test_assertion_error_when_calling_backward_first ==
    <<"header", "construct", "try", "backward_none", "uncorrect", "return">>
Body_test_assertion_error_without_sigmoid_before_BCELoss ==
    <<"header", "construct", "new_criterion", "load", "try", "call_ttm",
      "uncorrect", "return">>
Body_test_training_with_BCELoss ==
    <<"header", "construct", "new_criterion", "load", "visualize", "call_ttm",
      "plot", "visualize", "call_tester", "assign_acc", "print_final", "return">>
Body_test_training_with_BCEWithLogitsLoss ==
    <<"header", "construct", "new_criterion", "load", "visualize", "call_ttm",
      "plot", "visualize", "call_tester", "assign_acc", "print_final", "return">>
Body_test_on_mnist_data ==
    <<"header", "load_mnist", "construct", "new_criterion", "construct_torch",
      "call_ttm", "plot", "call_tester", "assign_acc", "print_final",
      "call_ttt", "plot", "call_tester_torch", "assign_acc_torch",
      "print_final_torch", "return">>
Body_test_on_mnist_data_numerically_stable_training ==
    <<"header", "load_mnist", "construct", "new_criterion", "construct_torch",
      "call_ttm", "plot", "call_tester", "assign_acc", "print_final",
      "call_ttt", "plot", "call_tester_torch", "assign_acc_torch",
      "print_final_torch", "return">>

Body(f) ==
    CASE f = "test_standalone_linear_module" -> Body_test_standalone_linear_module
      [] f = "test_sequential_module_with_relu_tanh_sigmoid" ->
            Body_test_sequential_module_with_relu_tanh_sigmoid
      [] f = "test_assertion_error_with_multiple_unnamed_sigmoid" ->
            Body_test_assertion_error_with_multiple_unnamed_sigmoid
      [] f = "test_not_corrupting_forward_variables_in_eval_mode" ->
            Body_test_not_corrupting_forward_variables_in_eval_mode
      [] f = "test_assertion_error_when_calling_backward_first" ->
            Body_test_assertion_error_when_calling_backward_first
      [] f = "test_assertion_error_without_sigmoid_before_BCELoss" ->
            Body_test_assertion_error_without_sigmoid_before_BCELoss
      [] f = "test_training_with_BCELoss" -> Body_test_training_with_BCELoss
      [] f = "test_training_with_BCEWithLogitsLoss" ->
            Body_test_training_with_BCEWithLogitsLoss
      [] f = "test_on_mnist_data" -> Body_test_on_mnist_data
      [] f = "test_on_mnist_data_numerically_stable_training" ->
            Body_test_on_mnist_data_numerically_stable_training
      [] f = "train_custom_and_torch" -> <<"call_cat", "return">>
      [] f = "train_and_test_model" -> <<"call_ttm", "return">>
      [] f = "train_and_test_model_torch" -> <<"call_ttt", "return">>
      [] OTHER -> <<"call_tester", "assign_acc", "return">>

CatchesOtherError(kind) == kind = "OtherError"
CatchesAnything(kind) == kind # "none"
\* except AssertionError as error
Catches(kind) == kind = "AssertionError"

\* The statement after the try/except of a negative test.
AfterTry(f) == (CHOOSE i \in 1..Len(Body(f)) : Body(f)[i] = "uncorrect") + 1

At(step) == pc = "body" /\ fn # "none" /\ ip <= Len(Body(fn)) /\ Body(fn)[ip] = step
Advance == pc' = "body" /\ ip' = ip + 1
Raise(kind) == raised' = kind /\ pc' = "unwind"
Emit(msg, val) == out' = Append(out, Line(msg, val))

--------------------------------------------------------------------------
(* Start of the script, and the driver that calls the file's functions *)

Init ==
    /\ pc = "import" /\ ip = 1 /\ stack = <<>> /\ fn = "none" /\ ncalls = 0
    /\ env \in Envs /\ bceSite \in BceSites
    /\ gradEnabled = TRUE /\ defaultTensorType = "FloatTensor"
    /\ out = <<>> /\ raised = "none" /\ inTry = FALSE
    /\ model = NoModel /\ torchModel = NoTorchModel
    /\ criterion = "none" /\ tFn = "none"
    /\ nbEpochs = 0 /\ e = 0
    /\ lossHist = <<>> /\ trainAccHist = <<>> /\ testAccHist = <<>>
    /\ trace = <<>>
    /\ tArg = "none" /\ tData = "none" /\ tRet = NoVal
    /\ testAccuracy = NoVal /\ testAccuracyTorch = NoVal

\* The locals of a top-level call, as they are before and after it.
ResetLocals ==
    /\ stack' = <<>> /\ raised' = "none" /\ inTry' = FALSE
    /\ model' = NoModel /\ torchModel' = NoTorchModel
    /\ criterion' = "none" /\ tFn' = "none"
    /\ nbEpochs' = 0 /\ e' = 0
    /\ lossHist' = <<>> /\ trainAccHist' = <<>> /\ testAccHist' = <<>>
    /\ trace' = <<>>
    /\ tArg' = "none" /\ tData' = "none" /\ tRet' = NoVal
    /\ testAccuracy' = NoVal /\ testAccuracyTorch' = NoVal

\* import demo: the module-level statements.
Import ==
    /\ pc = "import"
    /\ gradEnabled' = FALSE
    /\ defaultTensorType' = "FloatTensor"
    /\ pc' = "idle"
    /\ UNCHANGED <<ip, stack, fn, ncalls, env, bceSite, out, raised, inTry, model,
                   torchModel, criterion, tFn, nbEpochs, e, lossHist, trainAccHist,
                   testAccHist, trace, tArg, tData, tRet, testAccuracy,
                   testAccuracyTorch>>

\* A test function is called (none takes an argument).
CallTest(f) ==
    /\ pc = "idle" /\ ncalls < MaxCalls
    /\ fn' = f /\ ncalls' = ncalls + 1
    /\ pc' = "body" /\ ip' = 1 /\ out' = <<>>
    /\ ResetLocals
    /\ UNCHANGED <<env, bceSite, gradEnabled, defaultTensorType>>

\* The arguments a caller may hand to a training function or to a tester.
DirectLayers == {Model_with_BCELoss, Model_with_BCEWithLogitsLoss}
DirectCriteria == {"BCELoss", "BCEWithLogitsLoss"}
DirectTesters == {"bce", "bceWithLogits"}
Modes == {"train", "eval"}

\* A training function or a tester is called directly.  A training function
\* is given a freshly built model; a tester is given a model in either mode.
CallDirect(f, layers, crit, tf, nb, mode) ==
    /\ pc = "idle" /\ ncalls < MaxCalls
    /\ f \in {"test_model_bce", "test_model_bceWithLogits"} =>
            /\ tf = (IF f = "test_model_bce" THEN "bce" ELSE "bceWithLogits")
            /\ nb = 0 /\ crit = "BCEWithLogitsLoss"
    /\ f \notin {"test_model_bce", "test_model_bceWithLogits"} => mode = "train"
    /\ f = "train_custom_and_torch" => tf = "bce"
    /\ fn' = f /\ ncalls' = ncalls + 1
    /\ pc' = "body" /\ ip' = 1 /\ out' = <<>>
    /\ stack' = <<>> /\ raised' = "none" /\ inTry' = FALSE
    /\ model' = [LibNew(TRUE, layers) EXCEPT !.mode = mode]
    /\ torchModel' = [NoTorchModel EXCEPT !.built = TRUE]
    /\ criterion' = crit /\ tFn' = tf
    /\ nbEpochs' = nb /\ e' = 0
    /\ lossHist' = <<>> /\ trainAccHist' = <<>> /\ testAccHist' = <<>>
    /\ trace' = <<>>
    /\ tArg' = "none" /\ tData' = "none" /\ tRet' = NoVal
    /\ testAccuracy' = NoVal /\ testAccuracyTorch' = NoVal
    /\ UNCHANGED <<env, bceSite, gradEnabled, defaultTensorType>>

\* The top-level function returns: its locals are gone.
Return ==
    /\ At("return")
    /\ pc' = "idle" /\ fn' = "none" /\ ip' = 1 /\ out' = <<>>
    /\ ResetLocals
    /\ UNCHANGED <<ncalls, env, bceSite, gradEnabled, defaultTensorType>>

\* An exception propagates: the enclosing try of a negative test catches an
\* AssertionError and prints it; anything else ends the script.
Unwind ==
    /\ pc = "unwind"
    /\ IF inTry /\ Catches(raised)
       THEN /\ Emit("error", NoVal)
            /\ raised' = "none" /\ inTry' = FALSE
            /\ pc' = "body" /\ ip' = AfterTry(fn) /\ stack' = <<>>
       ELSE /\ pc' = "halted" /\ stack' = <<>>
            /\ UNCHANGED <<out, raised, inTry, ip>>
    /\ UNCHANGED <<fn, globalVars, modelVars, loopVars, trace, testerVars, accVars>>

--------------------------------------------------------------------------
(* The statements of the test functions *)

Header ==
    /\ At("header")
    /\ Emit("header", NoVal)
    /\ Advance
    /\ UNCHANGED <<stack, fn, globalVars, excVars, modelVars, loopVars, trace,
                   testerVars, accVars>>

\* model = Sequential(...) or model = Linear(...)
Construct ==
    /\ At("construct")
    /\ LET outcome == LibOutcome(IsSequential(fn) /\ LibSequentialViolation(Layers(fn)))
       IN IF outcome # "none"
          THEN /\ Raise(outcome)
               /\ UNCHANGED <<ip, model>>
          ELSE /\ model' = LibNew(IsSequential(fn), Layers(fn))
               /\ Advance
               /\ UNCHANGED raised
    /\ UNCHANGED <<stack, fn, globalVars, out, inTry, torchModel, criterion, tFn,
                   loopVars, trace, testerVars, accVars>>

\* criterion = MSELoss() / BCELoss() / BCEWithLogitsLoss()
NewCriterion ==
    /\ At("new_criterion")
    /\ criterion' = Criterion(fn)
    /\ Advance
    /\ UNCHANGED <<stack, fn, globalVars, out, excVars, model, torchModel, tFn,
                   loopVars, trace, testerVars, accVars>>

\* model_torch = nn....; set_initial_parameters(model, model_torch)
ConstructTorch ==
    /\ At("construct_torch")
    /\ torchModel' = [built |-> TRUE, mode |-> "train", ver |-> model.ver]
    /\ Advance
    /\ UNCHANGED <<stack, fn, globalVars, out, excVars, model, criterion, tFn,
                   loopVars, trace, testerVars, accVars>>

\* load_mock_test_data(): fails when the data files are missing.
Load ==
    /\ At("load")
    /\ IF env = "no_data"
       THEN Raise("OtherError") /\ UNCHANGED ip
       ELSE Advance /\ UNCHANGED raised
    /\ UNCHANGED <<stack, fn, globalVars, out, inTry, modelVars, loopVars, trace,
                   testerVars, accVars>>

\* load_random_datasets() and the reshaping of its tensors.
LoadMnist ==
    /\ At("load_mnist")
    /\ IF env = "no_data"
       THEN Raise("OtherError") /\ UNCHANGED ip
       ELSE Advance /\ UNCHANGED raised
    /\ UNCHANGED <<stack, fn, globalVars, out, inTry, modelVars, loopVars, trace,
                   testerVars, accVars>>

Try ==
    /\ At("try")
    /\ inTry' = TRUE
    /\ Advance
    /\ UNCHANGED <<stack, fn, globalVars, out, raised, modelVars, loopVars, trace,
                   testerVars, accVars>>

\* The guarded operation returned normally.
Uncorrect ==
    /\ At("uncorrect")
    /\ Emit("Uncorrect behavior, error should have been thrown.", NoVal)
    /\ inTry' = FALSE
    /\ Advance
    /\ UNCHANGED <<stack, fn, globalVars, raised, modelVars, loopVars, trace,
                   testerVars, accVars>>

\* model.backward(None)
BackwardNone ==
    /\ At("backward_none")
    /\ LET outcome == LibOutcome(LibBackwardViolation(model))
       IN IF outcome # "none"
          THEN /\ Raise(outcome)
               /\ UNCHANGED <<ip, model, trace>>
          ELSE /\ model' = LibBackward(model)
               /\ trace' = Append(trace, "model_backward")
               /\ Advance
               /\ UNCHANGED raised
    /\ UNCHANGED <<stack, fn, globalVars, out, inTry, torchModel, criterion, tFn,
                   loopVars, testerVars, accVars>>

\* output = model(input)
Forward ==
    /\ At("forward")
    /\ model' = LibForward(model, "train")
    /\ trace' = Append(trace, ForwardName(model))
    /\ Advance
    /\ UNCHANGED <<stack, fn, globalVars, out, excVars, torchModel, criterion, tFn,
                   loopVars, testerVars, accVars>>

\* loss = criterion(output, target)
CriterionForward ==
    /\ At("criterion")
    /\ LET outcome == LibOutcome(bceSite = "criterion_forward"
                                 /\ LibBCEViolation(criterion, model))
       IN IF outcome # "none"
          THEN Raise(outcome) /\ UNCHANGED <<ip, trace>>
          ELSE /\ trace' = Append(trace, "criterion_forward")
               /\ Advance
               /\ UNCHANGED raised
    /\ UNCHANGED <<stack, fn, globalVars, out, inTry, modelVars, loopVars,
                   testerVars, accVars>>

\* for module in model._children.values(): print(... module.save_for_backward ...)
PrintSaved ==
    /\ At("print_saved")
    /\ Emit("save_for_backward",
            IF model.saved = <<>> THEN NoVal
            ELSE Val("saved", "custom", model.saved[1].ver, model.saved[1].input))
    /\ Advance
    /\ UNCHANGED <<stack, fn, globalVars, excVars, modelVars, loopVars, trace,
                   testerVars, accVars>>

\* test_model_mse(model, test_input, test_target_index), of helpers: an
\* accuracy tester like the two of this file.
CallTesterMse ==
    /\ At("call_tester_mse")
    /\ model' = LibTrain(LibForward(LibEval(model), "test"))
    /\ trace' = trace \o <<"model_eval", "forward_eval", "model_train">>
    /\ tRet' = Val("acc", "custom", model.ver, "test")
    /\ Advance
    /\ UNCHANGED <<stack, fn, globalVars, out, excVars, torchModel, criterion, tFn,
                   loopVars, tArg, tData, accVars>>

\* visualize_bce / visualize_bceWithLogits: two forward passes and a plot.
Visualize ==
    /\ At("visualize")
    /\ model' = LibForward(LibForward(model, "train"), "test")
    /\ trace' = trace \o <<ForwardName(model), ForwardName(model)>>
    /\ Advance
    /\ UNCHANGED <<stack, fn, globalVars, out, excVars, torchModel, criterion, tFn,
                   loopVars, testerVars, accVars>>

\* plot_loss_and_acc(...)
Plot ==
    /\ At("plot")
    /\ Advance
    /\ UNCHANGED <<stack, fn, globalVars, out, excVars, modelVars, loopVars, trace,
                   testerVars, accVars>>

--------------------------------------------------------------------------
(* Calls made by the test functions *)

\* The arguments of the call in progress: the test functions pass literals,
\* a direct caller passes what it chose.
TesterOf == IF fn \in DirectFns THEN tFn ELSE TestModelFn(fn)
NbEpochsOf == IF fn \in DirectFns THEN nbEpochs ELSE Cap(NbEpochsArg(fn))
TesterEntry(tf) == IF tf = "bce" THEN "bce_eval" ELSE "bwl_eval"

ReturnToCaller == pc' = Head(stack) /\ stack' = Tail(stack)

\* train_custom_and_torch(model, criterion, model_torch, criterion_torch, nb_epochs, lr)
CallCat ==
    /\ At("call_cat")
    /\ nbEpochs' = NbEpochsOf
    /\ pc' = "cat_init" /\ stack' = <<"body">> /\ ip' = ip + 1
    /\ UNCHANGED <<fn, globalVars, out, excVars, modelVars, e, lossHist,
                   trainAccHist, testAccHist, trace, testerVars, accVars>>

\* train_and_test_model(model, criterion, test_model_fn, data, nb_epochs, lr)
CallTtm ==
    /\ At("call_ttm")
    /\ nbEpochs' = NbEpochsOf /\ tFn' = TesterOf
    /\ pc' = "ttm_init" /\ stack' = <<"body">> /\ ip' = ip + 1
    /\ UNCHANGED <<fn, globalVars, out, excVars, model, torchModel, criterion, e,
                   lossHist, trainAccHist, testAccHist, trace, testerVars, accVars>>

\* train_and_test_model_torch(model_torch, criterion_torch, test_model, data, nb_epochs, lr)
CallTtt ==
    /\ At("call_ttt")
    /\ nbEpochs' = NbEpochsOf /\ tFn' = TesterOf
    /\ pc' = "ttt_init" /\ stack' = <<"body">> /\ ip' = ip + 1
    /\ UNCHANGED <<fn, globalVars, out, excVars, model, torchModel, criterion, e,
                   lossHist, trainAccHist, testAccHist, trace, testerVars, accVars>>

\* test_model_bce(model, test_input, test_target) or its BCEWithLogits twin
CallTester ==
    /\ At("call_tester")
    /\ tArg' = "custom" /\ tData' = "test"
    /\ pc' = TesterEntry(TesterOf) /\ stack' = <<"body">> /\ ip' = ip + 1
    /\ UNCHANGED <<fn, globalVars, out, excVars, modelVars, loopVars, trace, tRet,
                   accVars>>

\* test_model(model_torch, test_input, test_target)
CallTesterTorch ==
    /\ At("call_tester_torch")
    /\ tArg' = "torch" /\ tData' = "test"
    /\ pc' = TesterEntry(TesterOf) /\ stack' = <<"body">> /\ ip' = ip + 1
    /\ UNCHANGED <<fn, globalVars, out, excVars, modelVars, loopVars, trace, tRet,
                   accVars>>

\* test_accuracy = <the tester's result>
AssignAcc ==
    /\ At("assign_acc")
    /\ testAccuracy' = tRet
    /\ Advance
    /\ UNCHANGED <<stack, fn, globalVars, out, excVars, modelVars, loopVars, trace,
                   testerVars, testAccuracyTorch>>

\* test_accuracy_torch = <the tester's result>
AssignAccTorch ==
    /\ At("assign_acc_torch")
    /\ testAccuracyTorch' = tRet
    /\ Advance
    /\ UNCHANGED <<stack, fn, globalVars, out, excVars, modelVars, loopVars, trace,
                   testerVars, testAccuracy>>

\* print("Final test accuracy = ", round(test_accuracy.item(), 4))
PrintFinal ==
    /\ At("print_final")
    /\ Emit("Final test accuracy = ", testAccuracy)
    /\ Advance
    /\ UNCHANGED <<stack, fn, globalVars, excVars, modelVars, loopVars, trace,
                   testerVars, accVars>>

\* print("Final test accuracy with torch = ", ...): the first MNIST scenario
\* prints test_accuracy_torch, the second prints test_accuracy.
FinalTorchPrinted ==
    IF fn = "test_on_mnist_data" THEN testAccuracyTorch ELSE testAccuracy

PrintFinalTorch ==
    /\ At("print_final_torch")
    /\ Emit("Final test accuracy with torch = ", FinalTorchPrinted)
    /\ Advance
    /\ UNCHANGED <<stack, fn, globalVars, excVars, modelVars, loopVars, trace,
                   testerVars, accVars>>

--------------------------------------------------------------------------
(* The accuracy testers *)

\* model.eval()
TesterEval(next) ==
    /\ IF tArg = "custom"
       THEN /\ model' = LibEval(model)
            /\ trace' = Append(trace, "model_eval")
            /\ UNCHANGED torchModel
       ELSE /\ torchModel' = [torchModel EXCEPT !.mode = "eval"]
            /\ UNCHANGED <<model, trace>>
    /\ pc' = next
    /\ UNCHANGED <<ip, stack, fn, globalVars, out, excVars, criterion, tFn,
                   loopVars, testerVars, accVars>>

\* test_output = model(test_input); test_accuracy = ...
TesterForward(next) ==
    /\ IF tArg = "custom"
       THEN /\ model' = LibForward(model, tData)
            /\ trace' = Append(trace, ForwardName(model))
            /\ tRet' = Val("acc", "custom", model.ver, tData)
       ELSE /\ tRet' = Val("acc", "torch", torchModel.ver, tData)
            /\ UNCHANGED <<model, trace>>
    /\ pc' = next
    /\ UNCHANGED <<ip, stack, fn, globalVars, out, excVars, torchModel, criterion,
                   tFn, loopVars, tArg, tData, accVars>>

\* model.train(); return test_accuracy
TesterTrain ==
    /\ IF tArg = "custom"
       THEN /\ model' = LibTrain(model)
            /\ trace' = Append(trace, "model_train")
            /\ UNCHANGED torchModel
       ELSE /\ torchModel' = [torchModel EXCEPT !.mode = "train"]
            /\ UNCHANGED <<model, trace>>
    /\ ReturnToCaller
    /\ UNCHANGED <<ip, fn, globalVars, out, excVars, criterion, tFn, loopVars,
                   testerVars, accVars>>

\* test_model_bce without its model.eval()
BceEvalMissing ==
    /\ pc = "bce_eval"
    /\ pc' = "bce_forward"
    /\ UNCHANGED <<ip, stack, fn, globalVars, out, excVars, modelVars, loopVars,
                   trace, testerVars, accVars>>

BceEval == pc = "bce_eval" /\ TesterEval("bce_forward")
BceForward == pc = "bce_forward" /\ TesterForward("bce_train")
BceTrain == pc = "bce_train" /\ TesterTrain

\* test_model_bceWithLogits without its model.train()
BwlTrainMissing ==
    /\ pc = "bwl_train"
    /\ ReturnToCaller
    /\ UNCHANGED <<ip, fn, globalVars, out, excVars, modelVars, loopVars, trace,
                   testerVars, accVars>>

BwlEval == pc = "bwl_eval" /\ TesterEval("bwl_forward")
BwlForward == pc = "bwl_forward" /\ TesterForward("bwl_train")
BwlTrain == pc = "bwl_train" /\ TesterTrain

--------------------------------------------------------------------------
(* train_and_test_model *)

LossVal(m) == Val("loss", "custom", m.ver, "train")

\* torch.set_grad_enabled(False); the three empty histories; SGD(model, lr)
TtmInit ==
    /\ pc = "ttm_init"
    /\ gradEnabled' = FALSE
    /\ lossHist' = <<>> /\ testAccHist' = <<>> /\ trainAccHist' = <<>>
    /\ Emit("Working with custom DL", NoVal)
    /\ e' = 0 /\ trace' = <<>>
    /\ pc' = "ttm_loop"
    /\ UNCHANGED <<ip, stack, fn, ncalls, env, bceSite, defaultTensorType, excVars,
                   modelVars, nbEpochs, testerVars, accVars>>

\* for e in range(nb_epochs): ... ; return the histories
TtmLoop ==
    /\ pc = "ttm_loop"
    /\ IF e < nbEpochs
       THEN pc' = "ttm_zero_grad" /\ UNCHANGED stack
       ELSE ReturnToCaller
    /\ UNCHANGED <<ip, fn, globalVars, out, excVars, modelVars, loopVars, trace,
                   testerVars, accVars>>

\* optimizer.zero_grad()
TtmZeroGrad ==
    /\ pc = "ttm_zero_grad"
    /\ model' = LibZeroGrad(model)
    /\ trace' = <<"zero_grad">>
    /\ pc' = "ttm_forward"
    /\ UNCHANGED <<ip, stack, fn, globalVars, out, excVars, torchModel, criterion,
                   tFn, loopVars, testerVars, accVars>>

\* output = model(input)
TtmForward ==
    /\ pc = "ttm_forward"
    /\ model' = LibForward(model, "train")
    /\ trace' = Append(trace, ForwardName(model))
    /\ pc' = "ttm_criterion"
    /\ UNCHANGED <<ip, stack, fn, globalVars, out, excVars, torchModel, criterion,
                   tFn, loopVars, testerVars, accVars>>

\* loss = criterion(output, target); loss_history.append(loss)
TtmCriterion ==
    /\ pc = "ttm_criterion"
    /\ LET outcome == LibOutcome(bceSite = "criterion_forward"
                                 /\ LibBCEViolation(criterion, model))
       IN IF outcome # "none"
          THEN Raise(outcome) /\ UNCHANGED <<trace, lossHist>>
          ELSE /\ trace' = Append(trace, "criterion_forward")
               /\ lossHist' = Append(lossHist, LossVal(model))
               /\ pc' = "ttm_call_test"
               /\ UNCHANGED raised
    /\ UNCHANGED <<ip, stack, fn, globalVars, out, inTry, modelVars, nbEpochs, e,
                   trainAccHist, testAccHist, testerVars, accVars>>

\* test_model_fn(model, test_input, test_target)
TtmCallTest ==
    /\ pc = "ttm_call_test"
    /\ tArg' = "custom" /\ tData' = "test"
    /\ pc' = TesterEntry(tFn) /\ stack' = <<"ttm_append_test">> \o stack
    /\ UNCHANGED <<ip, fn, globalVars, out, excVars, modelVars, loopVars, trace,
                   tRet, accVars>>

\* test_acc appended to train_acc_history
TtmAppendTestToTrain ==
    /\ pc = "ttm_append_test"
    /\ trainAccHist' = Append(trainAccHist, tRet)
    /\ pc' = "ttm_call_train"
    /\ UNCHANGED <<ip, stack, fn, globalVars, out, excVars, modelVars, nbEpochs, e,
                   lossHist, testAccHist, trace, testerVars, accVars>>

\* test_acc = ...; test_acc_history.append(test_acc)
TtmAppendTest ==
    /\ pc = "ttm_append_test"
    /\ testAccHist' = Append(testAccHist, tRet)
    /\ pc' = "ttm_call_train"
    /\ UNCHANGED <<ip, stack, fn, globalVars, out, excVars, modelVars, nbEpochs, e,
                   lossHist, trainAccHist, trace, testerVars, accVars>>

\* test_model_fn(model, input, target)
TtmCallTrain ==
    /\ pc = "ttm_call_train"
    /\ tArg' = "custom" /\ tData' = "train"
    /\ pc' = TesterEntry(tFn) /\ stack' = <<"ttm_append_train">> \o stack
    /\ UNCHANGED <<ip, fn, globalVars, out, excVars, modelVars, loopVars, trace,
                   tRet, accVars>>

\* train_acc = ...; train_acc_history.append(train_acc)
TtmAppendTrain ==
    /\ pc = "ttm_append_train"
    /\ trainAccHist' = Append(trainAccHist, tRet)
    /\ pc' = "ttm_crit_backward"
    /\ UNCHANGED <<ip, stack, fn, globalVars, out, excVars, modelVars, nbEpochs, e,
                   lossHist, testAccHist, trace, testerVars, accVars>>

\* grad_output = criterion.backward(); the log line every 50 epochs
TtmCritBackward ==
    /\ pc = "ttm_crit_backward"
    /\ LET outcome == LibOutcome(bceSite = "criterion_backward"
                                 /\ LibBCEViolation(criterion, model))
       IN IF outcome # "none"
          THEN Raise(outcome) /\ UNCHANGED <<trace, out>>
          ELSE /\ trace' = Append(trace, "criterion_backward")
               /\ IF e % LogEvery50 = 0
                  THEN Emit("epoch", LossVal(model))
                  ELSE UNCHANGED out
               /\ pc' = "ttm_model_backward"
               /\ UNCHANGED raised
    /\ UNCHANGED <<ip, stack, fn, globalVars, inTry, modelVars, loopVars,
                   testerVars, accVars>>

\* the loop without its model.backward
TtmModelBackwardSkipped ==
    /\ pc = "ttm_model_backward"
    /\ pc' = "ttm_step"
    /\ UNCHANGED <<ip, stack, fn, globalVars, out, excVars, modelVars, loopVars,
                   trace, testerVars, accVars>>

\* model.backward(grad_output)
TtmModelBackward ==
    /\ pc = "ttm_model_backward"
    /\ LET outcome == LibOutcome(LibBackwardViolation(model))
       IN IF outcome # "none"
          THEN Raise(outcome) /\ UNCHANGED <<trace, model>>
          ELSE /\ model' = LibBackward(model)
               /\ trace' = Append(trace, "model_backward")
               /\ pc' = "ttm_step"
               /\ UNCHANGED raised
    /\ UNCHANGED <<ip, stack, fn, globalVars, out, inTry, torchModel, criterion,
                   tFn, loopVars, testerVars, accVars>>

\* optimizer.step(loss); the next epoch
TtmStep ==
    /\ pc = "ttm_step"
    /\ model' = LibStep(model)
    /\ trace' = Append(trace, "optimizer_step")
    /\ e' = e + 1
    /\ pc' = "ttm_loop"
    /\ UNCHANGED <<ip, stack, fn, globalVars, out, excVars, torchModel, criterion,
                   tFn, nbEpochs, lossHist, trainAccHist, testAccHist, testerVars,
                   accVars>>

--------------------------------------------------------------------------
(* train_and_test_model_torch *)

TorchLossVal(m) == Val("loss", "torch", m.ver, "train")

\* the three empty histories; torch.set_grad_enabled(True); torch.optim.SGD
TttInit ==
    /\ pc = "ttt_init"
    /\ lossHist' = <<>> /\ testAccHist' = <<>> /\ trainAccHist' = <<>>
    /\ gradEnabled' = TRUE
    /\ Emit("Working with PyTorch", NoVal)
    /\ e' = 0
    /\ pc' = "ttt_loop"
    /\ UNCHANGED <<ip, stack, fn, ncalls, env, bceSite, defaultTensorType, excVars,
                   modelVars, nbEpochs, trace, testerVars, accVars>>

\* for e in range(nb_epochs): ...
TttLoop ==
    /\ pc = "ttt_loop"
    /\ pc' = IF e < nbEpochs THEN "ttt_forward" ELSE "ttt_finish"
    /\ UNCHANGED <<ip, stack, fn, globalVars, out, excVars, modelVars, loopVars,
                   trace, testerVars, accVars>>

\* optimizer.zero_grad(); output = model(input); loss = criterion(...);
\* loss_history.append(loss)
TttForward ==
    /\ pc = "ttt_forward"
    /\ lossHist' = Append(lossHist, TorchLossVal(torchModel))
    /\ pc' = "ttt_call_test"
    /\ UNCHANGED <<ip, stack, fn, globalVars, out, excVars, modelVars, nbEpochs, e,
                   trainAccHist, testAccHist, trace, testerVars, accVars>>

\* test_model_fn(model, test_input, test_target)
TttCallTest ==
    /\ pc = "ttt_call_test"
    /\ tArg' = "torch" /\ tData' = "test"
    /\ pc' = TesterEntry(tFn) /\ stack' = <<"ttt_append_test">> \o stack
    /\ UNCHANGED <<ip, fn, globalVars, out, excVars, modelVars, loopVars, trace,
                   tRet, accVars>>

\* test_acc_history.append(test_acc)
TttAppendTest ==
    /\ pc = "ttt_append_test"
    /\ testAccHist' = Append(testAccHist, tRet)
    /\ pc' = "ttt_call_train"
    /\ UNCHANGED <<ip, stack, fn, globalVars, out, excVars, modelVars, nbEpochs, e,
                   lossHist, trainAccHist, trace, testerVars, accVars>>

\* test_model_fn(model, input, target)
TttCallTrain ==
    /\ pc = "ttt_call_train"
    /\ tArg' = "torch" /\ tData' = "train"
    /\ pc' = TesterEntry(tFn) /\ stack' = <<"ttt_append_train">> \o stack
    /\ UNCHANGED <<ip, fn, globalVars, out, excVars, modelVars, loopVars, trace,
                   tRet, accVars>>

\* train_acc_history.append(train_acc); the log line every 50 epochs
TttAppendTrain ==
    /\ pc = "ttt_append_train"
    /\ trainAccHist' = Append(trainAccHist, tRet)
    /\ IF e % LogEvery50 = 0
       THEN Emit("epoch", TorchLossVal(torchModel))
       ELSE UNCHANGED out
    /\ pc' = "ttt_step"
    /\ UNCHANGED <<ip, stack, fn, globalVars, excVars, modelVars, nbEpochs, e,
                   lossHist, testAccHist, trace, testerVars, accVars>>

\* loss.backward(); optimizer.step()
TttStep ==
    /\ pc = "ttt_step"
    /\ torchModel' = [torchModel EXCEPT !.ver = @ + 1]
    /\ e' = e + 1
    /\ pc' = "ttt_loop"
    /\ UNCHANGED <<ip, stack, fn, globalVars, out, excVars, model, criterion, tFn,
                   nbEpochs, lossHist, trainAccHist, testAccHist, trace,
                   testerVars, accVars>>

\* the function without its final torch.set_grad_enabled(False)
TttFinishLeavesGradEnabled ==
    /\ pc = "ttt_finish"
    /\ ReturnToCaller
    /\ UNCHANGED <<ip, fn, globalVars, out, excVars, modelVars, loopVars, trace,
                   testerVars, accVars>>

\* del nn; torch.set_grad_enabled(False); return the histories
TttFinish ==
    /\ pc = "ttt_finish"
    /\ gradEnabled' = FALSE
    /\ ReturnToCaller
    /\ UNCHANGED <<ip, fn, ncalls, env, bceSite, defaultTensorType, out, excVars,
                   modelVars, loopVars, trace, testerVars, accVars>>

--------------------------------------------------------------------------
(* train_custom_and_torch *)

\* input, target, _, _ = load_mock_test_data(); SGD(model, lr=lr)
CatInit ==
    /\ pc = "cat_init"
    /\ IF env = "no_data"
       THEN Raise("OtherError") /\ UNCHANGED <<out, e, trace>>
       ELSE /\ Emit("Working with custom DL", NoVal)
            /\ e' = 0 /\ trace' = <<>>
            /\ pc' = "cat_loop"
            /\ UNCHANGED raised
    /\ UNCHANGED <<ip, stack, fn, globalVars, inTry, modelVars, nbEpochs, lossHist,
                   trainAccHist, testAccHist, testerVars, accVars>>

\* for e in range(nb_epochs): ... (the hand-built model)
CatLoop ==
    /\ pc = "cat_loop"
    /\ pc' = IF e < nbEpochs THEN "cat_zero_grad" ELSE "cat_torch_init"
    /\ UNCHANGED <<ip, stack, fn, globalVars, out, excVars, modelVars, loopVars,
                   trace, testerVars, accVars>>

\* optimizer.zero_grad()
CatZeroGrad ==
    /\ pc = "cat_zero_grad"
    /\ model' = LibZeroGrad(model)
    /\ trace' = <<"zero_grad">>
    /\ pc' = "cat_forward"
    /\ UNCHANGED <<ip, stack, fn, globalVars, out, excVars, torchModel, criterion,
                   tFn, loopVars, testerVars, accVars>>

\* output = model(input)
CatForward ==
    /\ pc = "cat_forward"
    /\ model' = LibForward(model, "train")
    /\ trace' = Append(trace, ForwardName(model))
    /\ pc' = "cat_criterion"
    /\ UNCHANGED <<ip, stack, fn, globalVars, out, excVars, torchModel, criterion,
                   tFn, loopVars, testerVars, accVars>>

\* loss = criterion(output, target)
CatCriterion ==
    /\ pc = "cat_criterion"
    /\ LET outcome == LibOutcome(bceSite = "criterion_forward"
                                 /\ LibBCEViolation(criterion, model))
       IN IF outcome # "none"
          THEN Raise(outcome) /\ UNCHANGED trace
          ELSE /\ trace' = Append(trace, "criterion_forward")
               /\ pc' = "cat_crit_backward"
               /\ UNCHANGED raised
    /\ UNCHANGED <<ip, stack, fn, globalVars, out, inTry, modelVars, loopVars,
                   testerVars, accVars>>

\* grad_output = criterion.backward(); the log line every 100 epochs
CatCritBackward ==
    /\ pc = "cat_crit_backward"
    /\ LET outcome == LibOutcome(bceSite = "criterion_backward"
                                 /\ LibBCEViolation(criterion, model))
       IN IF outcome # "none"
          THEN Raise(outcome) /\ UNCHANGED <<trace, out>>
          ELSE /\ trace' = Append(trace, "criterion_backward")
               /\ IF e % LogEvery100 = 0
                  THEN Emit("epoch", LossVal(model))
                  ELSE UNCHANGED out
               /\ pc' = "cat_model_backward"
               /\ UNCHANGED raised
    /\ UNCHANGED <<ip, stack, fn, globalVars, inTry, modelVars, loopVars,
                   testerVars, accVars>>

\* model.backward(grad_output)
CatModelBackward ==
    /\ pc = "cat_model_backward"
    /\ LET outcome == LibOutcome(LibBackwardViolation(model))
       IN IF outcome # "none"
          THEN Raise(outcome) /\ UNCHANGED <<trace, model>>
          ELSE /\ model' = LibBackward(model)
               /\ trace' = Append(trace, "model_backward")
               /\ pc' = "cat_step"
               /\ UNCHANGED raised
    /\ UNCHANGED <<ip, stack, fn, globalVars, out, inTry, torchModel, criterion,
                   tFn, loopVars, testerVars, accVars>>

\* optimizer.step(loss); the next epoch
CatStep ==
    /\ pc = "cat_step"
    /\ model' = LibStep(model)
    /\ trace' = Append(trace, "optimizer_step")
    /\ e' = e + 1
    /\ pc' = "cat_loop"
    /\ UNCHANGED <<ip, stack, fn, globalVars, out, excVars, torchModel, criterion,
                   tFn, nbEpochs, lossHist, trainAccHist, testAccHist, testerVars,
                   accVars>>

\* from torch import nn; torch.set_grad_enabled(True); torch.optim.SGD
CatTorchInit ==
    /\ pc = "cat_torch_init"
    /\ gradEnabled' = TRUE
    /\ Emit("Working with PyTorch", NoVal)
    /\ e' = 0
    /\ pc' = "cat_torch_loop"
    /\ UNCHANGED <<ip, stack, fn, ncalls, env, bceSite, defaultTensorType, excVars,
                   modelVars, nbEpochs, lossHist, trainAccHist, testAccHist, trace,
                   testerVars, accVars>>

\* for e in range(nb_epochs): ... (the torch model)
CatTorchLoop ==
    /\ pc = "cat_torch_loop"
    /\ pc' = IF e < nbEpochs THEN "cat_torch_forward" ELSE "cat_finish"
    /\ UNCHANGED <<ip, stack, fn, globalVars, out, excVars, modelVars, loopVars,
                   trace, testerVars, accVars>>

\* optimizer_torch.zero_grad(); forward; loss; the log line every 100 epochs
CatTorchForward ==
    /\ pc = "cat_torch_forward"
    /\ IF e % LogEvery100 = 0
       THEN Emit("epoch", TorchLossVal(torchModel))
       ELSE UNCHANGED out
    /\ pc' = "cat_torch_step"
    /\ UNCHANGED <<ip, stack, fn, globalVars, excVars, modelVars, loopVars, trace,
                   testerVars, accVars>>

\* loss_torch.backward(); optimizer_torch.step()
CatTorchStep ==
    /\ pc = "cat_torch_step"
    /\ torchModel' = [torchModel EXCEPT !.ver = @ + 1]
    /\ e' = e + 1
    /\ pc' = "cat_torch_loop"
    /\ UNCHANGED <<ip, stack, fn, globalVars, out, excVars, model, criterion, tFn,
                   nbEpochs, lossHist, trainAccHist, testAccHist, trace,
                   testerVars, accVars>>

\* del nn; torch.set_grad_enabled(False); return
CatFinish ==
    /\ pc = "cat_finish"
    /\ gradEnabled' = FALSE
    /\ ReturnToCaller
    /\ UNCHANGED <<ip, fn, ncalls, env, bceSite, defaultTensorType, out, excVars,
                   modelVars, loopVars, trace, testerVars, accVars>>

--------------------------------------------------------------------------
(* The specification *)

Next ==
    \/ Import
    \/ \E f \in TestFns : CallTest(f)
    \/ \E f \in DirectFns, layers \in DirectLayers, crit \in DirectCriteria,
          tf \in DirectTesters, nb \in 0..MaxEpochs, mode \in Modes :
            CallDirect(f, layers, crit, tf, nb, mode)
    \/ Return
    \/ Unwind
    \/ Header
    \/ Construct
    \/ NewCriterion
    \/ ConstructTorch
    \/ Load
    \/ LoadMnist
    \/ Try
    \/ Uncorrect
    \/ BackwardNone
    \/ Forward
    \/ CriterionForward
    \/ PrintSaved
    \/ CallTesterMse
    \/ Visualize
    \/ Plot
    \/ CallCat
    \/ CallTtm
    \/ CallTtt
    \/ CallTester
    \/ CallTesterTorch
    \/ AssignAcc
    \/ AssignAccTorch
    \/ PrintFinal
    \/ PrintFinalTorch
    \/ BceEval
    \/ BceForward
    \/ BceTrain
    \/ BwlEval
    \/ BwlForward
    \/ BwlTrain
    \/ TtmInit
    \/ TtmLoop
    \/ TtmZeroGrad
    \/ TtmForward
    \/ TtmCriterion
    \/ TtmCallTest
    \/ TtmAppendTest
    \/ TtmCallTrain
    \/ TtmAppendTrain
    \/ TtmCritBackward
    \/ TtmModelBackward
    \/ TtmStep
    \/ TttInit
    \/ TttLoop
    \/ TttForward
    \/ TttCallTest
    \/ TttAppendTest
    \/ TttCallTrain
    \/ TttAppendTrain
    \/ TttStep
    \/ TttFinish
    \/ CatInit
    \/ CatLoop
    \/ CatZeroGrad
    \/ CatForward
    \/ CatCriterion
    \/ CatCritBackward
    \/ CatModelBackward
    \/ CatStep
    \/ CatTorchInit
    \/ CatTorchLoop
    \/ CatTorchForward
    \/ CatTorchStep
    \/ CatFinish

Spec == Init /\ [][Next]_vars

--------------------------------------------------------------------------
(* Properties *)

Printed(msg) == \E i \in 1..Len(out) : out[i].msg = msg
UncorrectMsg == "Uncorrect behavior, error should have been thrown."
Running(f) == fn = f /\ pc # "idle"
\* Control is at the statement that follows the call `step` of the running
\* function, the call having returned normally.
ReturnedFrom(step) ==
    /\ pc = "body" /\ fn # "none"
    /\ ip > 1 /\ ip <= Len(Body(fn)) + 1
    /\ Body(fn)[ip - 1] = step
ConstructFailed == pc \in {"unwind", "halted"} /\ fn # "none" /\ Body(fn)[ip] = "construct"

C2_BackwardBeforeForwardRejected ==
    (env = "conforming" /\ Running("test_assertion_error_when_calling_backward_first")) =>
        /\ ~Printed(UncorrectMsg)
        /\ pc # "halted"
        /\ model.built => model = LibNew(FALSE, Model_backward_first)
        /\ pc = "unwind" => raised = "AssertionError" /\ Body(fn)[ip] = "backward_none"
        /\ At("return") => Printed("error") /\ raised = "none" /\ model.built

C2_Witness ==
    /\ env = "conforming"
    /\ fn = "test_assertion_error_when_calling_backward_first"
    /\ At("return") /\ Printed("error")
    /\ model = LibNew(FALSE, Model_backward_first)

\* C3: with a conforming framework, train_and_test_model with BCELoss on the
\* model ending in a Linear layer raises an AssertionError out of the training
\* loop before the loop completes its epochs (no parameter update is made),
\* the negative test catches it and never prints the 'Uncorrect behavior'
\* line; the same loop on the model ending in a Sigmoid raises nothing.
C3_BCELossNeedsSigmoid ==
    /\ (env = "conforming" /\ Running("test_assertion_error_without_sigmoid_before_BCELoss")) =>
          /\ ~Printed(UncorrectMsg)
          /\ pc # "halted"
          /\ ~ReturnedFrom("call_ttm")
          /\ model.ver = 0
          /\ pc = "unwind" =>
                /\ raised = "AssertionError" /\ inTry
                /\ e < nbEpochs
                /\ stack # <<>>
          /\ At("return") => Printed("error") /\ raised = "none"
    /\ (env = "conforming" /\ Running("test_training_with_BCELoss")) =>
          /\ raised = "none" /\ pc \notin {"unwind", "halted"}
          /\ ReturnedFrom("call_ttm") => model.ver = nbEpochs /\ nbEpochs > 0

C3_Witness ==
    /\ env = "conforming"
    /\ fn = "test_assertion_error_without_sigmoid_before_BCELoss"
    /\ At("return") /\ Printed("error") /\ Len(lossHist) <= 1

TesterPcs == {"bce_eval", "bce_forward", "bce_train", "bwl_eval", "bwl_forward", "bwl_train"}
TtmPcs == {"ttm_init", "ttm_loop", "ttm_zero_grad", "ttm_forward", "ttm_criterion",
           "ttm_call_test", "ttm_append_test", "ttm_call_train", "ttm_append_train",
           "ttm_crit_backward", "ttm_model_backward", "ttm_step"}
TttPcs == {"ttt_init", "ttt_loop", "ttt_forward", "ttt_call_test", "ttt_append_test",
           "ttt_call_train", "ttt_append_train", "ttt_step", "ttt_finish"}
CatCustomPcs == {"cat_init", "cat_loop", "cat_zero_grad", "cat_forward", "cat_criterion",
                 "cat_crit_backward", "cat_model_backward", "cat_step"}
CatTorchPcs == {"cat_torch_loop", "cat_torch_forward", "cat_torch_step", "cat_finish"}
\* A tester called from the loop of train_and_test_model is running.
TesterInTtm ==
    pc \in TesterPcs /\ stack # <<>> /\ Head(stack) \in {"ttm_append_test", "ttm_append_train"}
TesterInTtt ==
    pc \in TesterPcs /\ stack # <<>> /\ Head(stack) \in {"ttt_append_test", "ttt_append_train"}

SavedBy(m, input, ver) ==
    /\ Len(m.saved) = Len(m.layers) /\ Len(m.saved) > 0
    /\ \A i \in 1..Len(m.saved) : m.saved[i] = [input |-> input, ver |-> ver]

\* C4: no step of an accuracy tester run on the hand-built model (model.eval();
\* forward; model.train()) changes any module's save_for_backward, and neither
\* does test_model_mse in the eval-mode test; so at model.backward of epoch e
\* in train_and_test_model every module holds what that epoch's training
\* forward stored (training input, parameters of epoch e), although two
\* evaluation passes ran in between.
C4_EvalForwardKeepsSaved ==
    [][ /\ (pc \in TesterPcs /\ tArg = "custom") => model'.saved = model.saved
        /\ At("call_tester_mse") =>
              /\ model'.saved = model.saved
              /\ SavedBy(model, "train", 0)
        /\ pc = "ttm_model_backward" =>
              /\ SavedBy(model, "train", e)
              /\ model.ver = e
              /\ Len(testAccHist) = e + 1 /\ Len(trainAccHist) = e + 1
      ]_vars

C4_Witness ==
    /\ pc = "ttm_model_backward" /\ e = 1
    /\ SavedBy(model, "train", 1)
    /\ Len(testAccHist) = 2 /\ testAccHist[2].data = "test"

HistoryOf(hist, what, m, data, n) ==
    /\ Len(hist) = n
    /\ \A i \in 1..Len(hist) : hist[i] = Val(what, m, i - 1, data)

HistoriesAre(m, n) ==
    /\ HistoryOf(lossHist, "loss", m, "train", n)
    /\ HistoryOf(trainAccHist, "acc", m, "train", n)
    /\ HistoryOf(testAccHist, "acc", m, "test", n)

\* C6: in train_and_test_model and train_and_test_model_torch, at the start of
\* epoch e each of the three histories has length e, on normal return each has
\* length nb_epochs (empty when nb_epochs is 0), and entry e of each is the
\* loss (train accuracy, test accuracy) computed in epoch e with the
\* parameters as they were before that epoch's update.
C6_HistoriesOncePerEpoch ==
    /\ pc \in {"ttm_loop", "ttm_zero_grad"} => HistoriesAre("custom", e) /\ model.ver = e
    /\ pc \in {"ttt_loop", "ttt_forward", "ttt_finish"} =>
          HistoriesAre("torch", e) /\ torchModel.ver = e
    /\ pc \in TtmPcs \cup TttPcs => e <= nbEpochs
    /\ ReturnedFrom("call_ttm") => HistoriesAre("custom", nbEpochs)
    /\ ReturnedFrom("call_ttt") => HistoriesAre("torch", nbEpochs)

C6_Witness ==
    /\ ReturnedFrom("call_ttt")
    /\ nbEpochs > 1
    /\ HistoriesAre("torch", nbEpochs)

C6_WitnessEmpty ==
    /\ ReturnedFrom("call_ttm") /\ nbEpochs = 0 /\ lossHist = <<>>

\* C7: in each negative test the outcome of the guarded operation decides the
\* output: an AssertionError is caught and printed and the 'Uncorrect
\* behavior' line is not; a normal return prints exactly that line and raises
\* nothing; any other error is not caught, prints neither and ends the
\* script.  No other function of the file catches an error.
C7_GuardedOutcomeDecidesOutput ==
    [][ /\ (pc = "unwind" /\ inTry /\ raised = "AssertionError") =>
              /\ fn \in NegativeTests
              /\ out' = Append(out, Line("error", NoVal))
              /\ raised' = "none" /\ pc' = "body" /\ Body(fn)[ip'] = "return"
        /\ (pc = "unwind" /\ ~(inTry /\ raised = "AssertionError")) =>
              /\ pc' = "halted" /\ out' = out /\ raised' = raised
              /\ raised # "none"
        /\ (fn \in NegativeTests /\ At("uncorrect")) =>
              /\ raised = "none" /\ ~Printed("error")
              /\ out' = Append(out, Line(UncorrectMsg, NoVal))
              /\ Body(fn)[ip'] = "return"
        /\ (fn \in NegativeTests /\ At("return")) =>
              /\ raised = "none"
              /\ Printed("error") # Printed(UncorrectMsg)
              /\ Printed("error") <=> env \in {"conforming", "no_data"}
              /\ Printed(UncorrectMsg) <=> env = "no_assert"
        /\ (fn \in NegativeTests /\ pc = "halted") =>
              /\ raised = "OtherError"
              /\ ~Printed("error") /\ ~Printed(UncorrectMsg)
        /\ (fn \in NegativeTests /\ env = "other_error") => ~At("return")
        /\ (fn # "none" /\ fn \notin NegativeTests) =>
              /\ ~inTry /\ ~Printed("error") /\ ~Printed(UncorrectMsg)
              /\ raised # "none" => pc \in {"unwind", "halted"}
      ]_vars

C7_Witness ==
    /\ env = "no_assert"
    /\ fn = "test_assertion_error_without_sigmoid_before_BCELoss"
    /\ At("return")
    /\ Printed(UncorrectMsg) /\ ~Printed("error") /\ raised = "none"

C7_WitnessOther ==
    /\ env = "other_error" /\ fn \in NegativeTests
    /\ pc = "halted" /\ raised = "OtherError"

Count(seq, x) == Cardinality({i \in 1..Len(seq) : seq[i] = x})
\* The name of a framework call without the mode it ran in.
CallName(x) == IF x \in {"forward_train", "forward_eval"} THEN "model_forward" ELSE x
Calls(seq) == [i \in 1..Len(seq) |-> CallName(seq[i])]
IsTesterCall(x) == x \in {"model_eval", "forward_eval", "model_train"}
NotTesterCall(x) == ~IsTesterCall(x)
EpochCalls == <<"zero_grad", "forward_train", "criterion_forward",
                "criterion_backward", "model_backward", "optimizer_step">>
EpochDone == pc \in {"ttm_loop", "cat_loop"} /\ e > 0

C9_TestersRestoreTrainingMode ==
    /\ pc \in {"bce_forward", "bwl_forward", "bce_train", "bwl_train"} =>
          IF tArg = "custom" THEN model.mode = "eval" ELSE torchModel.mode = "eval"
    /\ pc \in {"ttm_append_test", "ttm_append_train"} => model.mode = "train"
    /\ pc \in {"ttt_append_test", "ttt_append_train"} => torchModel.mode = "train"
    /\ ReturnedFrom("call_tester") => model.mode = "train"
    /\ ReturnedFrom("call_tester_torch") => torchModel.mode = "train"
    /\ pc \in {"ttm_forward", "ttm_criterion", "ttm_crit_backward",
               "ttm_model_backward", "ttm_step"} => model.mode = "train"
    /\ ReturnedFrom("call_ttm") => model.mode = "train"

C9_Witness ==
    /\ fn = "test_model_bceWithLogits"
    /\ ReturnedFrom("call_tester")
    /\ model.mode = "train" /\ tRet.what = "acc"

C9_WitnessLoop ==
    /\ pc = "ttm_step" /\ e = 1 /\ model.mode = "train"

HandBuiltPcs == TtmPcs \cup CatCustomPcs
TorchLoopPcs == TttPcs \cup CatTorchPcs

\* C10: the file never changes torch's default tensor type; the autograd
\* switch is disabled by the import and is enabled only while a torch training
\* loop of train_custom_and_torch or train_and_test_model_torch runs: it is
\* disabled whenever a top-level function has returned, and during every step
\* of the hand-built loops of train_custom_and_torch and train_and_test_model
\* (past its first statement), the tester calls of the latter included.
C10_AutogradOnlyInTorchLoops ==
    [][ /\ defaultTensorType' = defaultTensorType
        /\ pc = "import" => ~gradEnabled'
        /\ pc = "idle" => ~gradEnabled
        /\ gradEnabled =>
              \/ pc = "import"
              \/ pc \in TorchLoopPcs \ {"ttt_init"}
              \/ TesterInTtt
        /\ (pc \in HandBuiltPcs \ {"ttm_init"} \/ TesterInTtm) => ~gradEnabled
        /\ pc \in {"ttt_finish", "cat_finish"} => ~gradEnabled'
      ]_vars

C10_Witness ==
    /\ pc = "cat_model_backward" /\ ncalls = MaxCalls /\ ~gradEnabled

MnistTests == {"test_on_mnist_data", "test_on_mnist_data_numerically_stable_training"}
PrintedWith(msg, val) == \E i \in 1..Len(out) : out[i] = Line(msg, val)
PrintedOnce(msg) == Cardinality({i \in 1..Len(out) : out[i].msg = msg}) = 1

\* C11: when either MNIST scenario is about to return, the one value printed
\* after 'Final test accuracy = ' is the test-set accuracy of the hand-built
\* model after its nb_epochs updates, and the one value printed after 'Final
\* test accuracy with torch = ' is the test-set accuracy of the torch model
\* after its nb_epochs updates.
C11_FinalAccuraciesPrinted ==
    (fn \in MnistTests /\ At("return")) =>
        /\ PrintedOnce("Final test accuracy = ")
        /\ PrintedWith("Final test accuracy = ", Val("acc", "custom", nbEpochs, "test"))
        /\ PrintedOnce("Final test accuracy with torch = ")
        /\ PrintedWith("Final test accuracy with torch = ",
                       Val("acc", "torch", nbEpochs, "test"))
        /\ model.ver = nbEpochs /\ torchModel.ver = nbEpochs

\* The part of C11 that the code satisfies: the first scenario prints both
\* accuracies as stated, and the second prints the hand-built model's.
C11_FirstScenarioPrinted ==
    /\ (fn = "test_on_mnist_data" /\ At("return")) =>
          /\ PrintedWith("Final test accuracy = ", Val("acc", "custom", nbEpochs, "test"))
          /\ PrintedWith("Final test accuracy with torch = ",
                         Val("acc", "torch", nbEpochs, "test"))
    /\ (fn = "test_on_mnist_data_numerically_stable_training" /\ At("return")) =>
          /\ PrintedWith("Final test accuracy = ", Val("acc", "custom", nbEpochs, "test"))
          /\ testAccuracyTorch = Val("acc", "torch", nbEpochs, "test")

====
